---- MODULE Spec2Model ----
(***************************************************************************)
(* Upload lifecycle and chat pipeline of the TeamPrompt front end.         *)
(*                                                                         *)
(* The repository holds two FileUploader components that track files:      *)
(*   "uploader" : src/unnamed/part_002, lines 179-548, the component whose *)
(*                props (onFilesUploaded) are the ones Home passes;        *)
(*   "alt"      : src/frontend/app/components/FileUploader.tsx.             *)
(* `variant` says which of the two is mounted; it never changes.           *)
(*                                                                         *)
(* A file name is a sequence of one-character strings, so that             *)
(* split(".").pop() and toLowerCase() are computed, not assumed.           *)
(*                                                                         *)
(* Tracked entries carry two history fields the code does not have:        *)
(*   id   : the number of the entry, given when it is created;             *)
(*   from : the id of the entry for whose file the request was issued      *)
(*          whose result the entry now holds (0 while it holds none).      *)
(* Neither is read by any guard or assignment of the program state.        *)
(*                                                                         *)
(* The ChatBox part of the state, its two components and its history       *)
(* (`requests`, and `at` in each request and suspended call) are described *)
(* where ChatBox is modelled.  Spec runs the FileUploader with the ChatBox *)
(* idle; SpecChat runs the ChatBox, the FileUploader being reduced to the  *)
(* results it reports to Home; SpecValidate and SpecUploadFile apply       *)
(* validateFiles and uploadFile on their own.                              *)
(* SpecLive and SpecChatLive add a transport that answers every request;   *)
(* SpecChatController calls handleSend whatever the controls show;         *)
(* SpecContext applies the code that builds the context on its own.        *)
(* SpecRemoval is Spec without clearAll, so that `removed` holds single     *)
(* removals only; SpecPage runs both components together as Home mounts    *)
(* them; SpecHealth runs the ChatBox beside the health check of Home.      *)
(***************************************************************************)
EXTENDS Integers, Sequences, FiniteSets, TLC

VARIABLES
    variant,        \* which FileUploader component is mounted
    files,          \* useState<UploadedFile[]>  (the tracked-file list)
    error,          \* useState<string | null>   (the validation error shown)
    isUploading,    \* useState(false)
    inFlight,       \* the handleFileUpload calls suspended at await Promise.all
    uploadedFiles,  \* Home's useState<UploadedFile[]>, fed by onFilesUploaded
    nextId,         \* history: the id the next tracked entry gets
    removed,        \* history: ids of the entries removed by removeFile / clearAll
    returned,       \* history: the last uploadFile call made on its own, with its value
    backendStatus,  \* Home's useState("checking"), set by the health check
    chatVariant,    \* which ChatBox component is mounted
    messages,       \* ChatBox: useState<Message[]>
    input,          \* ChatBox: useState("")  (the text in the textarea)
    loading,        \* ChatBox: useState(false)
    sends,          \* the handleSend calls suspended at an await
    requests        \* history: the requests the ChatBox has issued, in order

\* The state of FileUploader and Home, and the state of ChatBox.
uploadVars == <<variant, files, error, isUploading, inFlight, uploadedFiles, nextId,
                removed, returned, backendStatus>>
chatVars == <<chatVariant, messages, input, loading, sends, requests>>

vars == <<variant, files, error, isUploading, inFlight, uploadedFiles, nextId, removed,
          returned, chatVariant, messages, input, loading, sends, requests, backendStatus>>

----------------------------------------------------------------------------
(* Bounds *)

\* Upload requests issued (tracked entries created) in one behaviour.
MaxUploads == 2

----------------------------------------------------------------------------
(* Strings *)

\* String.prototype.toLowerCase, letter by letter.
upperCase ==
    <<"A", "B", "C", "D", "E", "F", "G", "H", "I", "J", "K", "L", "M",
      "N", "O", "P", "Q", "R", "S", "T", "U", "V", "W", "X", "Y", "Z">>
lowerCase ==
    <<"a", "b", "c", "d", "e", "f", "g", "h", "i", "j", "k", "l", "m",
      "n", "o", "p", "q", "r", "s", "t", "u", "v", "w", "x", "y", "z">>

toLowerCaseChar(c) ==
    IF \E i \in 1..26 : upperCase[i] = c
    THEN lowerCase[CHOOSE i \in 1..26 : upperCase[i] = c]
    ELSE c

toLowerCase(s) == [i \in 1..Len(s) |-> toLowerCaseChar(s[i])]

\* The positions of the separator in a name.
DotPositions(s) == {i \in 1..Len(s) : s[i] = "."}

SetMax(S) == CHOOSE m \in S : \A x \in S : x <= m

\* name.split(".").pop(): the text after the last ".", the whole name when
\* it holds no ".".
splitPop(s) ==
    IF DotPositions(s) = {}
    THEN s
    ELSE SubSeq(s, SetMax(DotPositions(s)) + 1, Len(s))

\* "." + file.name.split(".").pop()?.toLowerCase()
extension(name) == <<".">> \o toLowerCase(splitPop(name))

includes(list, x) == \E i \in 1..Len(list) : list[i] = x

----------------------------------------------------------------------------
(* Validation *)

allowedTypes ==
    << <<".", "p", "d", "f">>,
       <<".", "t", "x", "t">>,
       <<".", "h", "t", "m", "l">>,
       <<".", "m", "d">>,
       <<".", "d", "o", "c", "x">>,
       <<".", "c", "s", "v">> >>

allowedTypes_alt ==
    << <<".", "p", "d", "f">>,
       <<".", "t", "x", "t">>,
       <<".", "h", "t", "m", "l">>,
       <<".", "m", "d">>,
       <<".", "d", "o", "c", "x">>,
       <<".", "d", "o", "c">>,
       <<".", "c", "s", "v">> >>

maxFileSize == 10 * 1024 * 1024

\* The value of `error` when no error is shown, and the two messages.
null == [kind |-> "null"]
notSupported(name) == [kind |-> "is not supported", file |-> name]
exceedsLimit(name) == [kind |-> "exceeds 10MB limit", file |-> name]

SetMin(S) == CHOOSE m \in S : \A x \in S : m <= x

\* part_002: one loop over the files, the type check before the size check
\* for each file.
RECURSIVE validateFrom(_, _)
validateFrom(fileList, i) ==
    IF i > Len(fileList) THEN null
    ELSE IF ~includes(allowedTypes, extension(fileList[i].name))
         THEN notSupported(fileList[i].name)
    ELSE IF fileList[i].size > maxFileSize
         THEN exceedsLimit(fileList[i].name)
    ELSE validateFrom(fileList, i + 1)

validateFiles(fileList) == validateFrom(fileList, 1)

\* FileUploader.tsx: the first file of a wrong type among all files, and
\* only when there is none the first oversized file.  The value is the
\* error the function leaves in `error` (null when it returns true).
validateFiles_alt(fileList) ==
    LET invalidType == {i \in 1..Len(fileList) :
                           ~includes(allowedTypes_alt, extension(fileList[i].name))}
        oversized == {i \in 1..Len(fileList) : fileList[i].size > maxFileSize}
    IN  IF invalidType # {} THEN notSupported(fileList[SetMin(invalidType)].name)
        ELSE IF oversized # {} THEN exceedsLimit(fileList[SetMin(oversized)].name)
        ELSE null

----------------------------------------------------------------------------
(* uploadFile *)

\* What one POST /upload-document can end in:
\*   type "network"  : fetch rejects, the request never got an answer;
\*   type "response" : an answer with `ok` (2xx or not), `status`, and a body
\*                     that parses as JSON (`json`) or does not; `detail`,
\*                     `chunks`, `doc_id` are the fields of the parsed body
\*                     ("" : the body has no detail).
networkFailure ==
    [type |-> "network", ok |-> FALSE, status |-> 0, json |-> FALSE,
     detail |-> "", chunks |-> 0, doc_id |-> ""]
httpResponse(ok, status, json, detail, chunks, doc_id) ==
    [type |-> "response", ok |-> ok, status |-> status, json |-> json,
     detail |-> detail, chunks |-> chunks, doc_id |-> doc_id]

\* The UploadedFile values uploadFile returns.  `from` is the history field:
\* the id of the tracked entry created for the file this request carries.
successResult(name, chunks, docId, id) ==
    [name |-> name, status |-> "success", chunks |-> chunks, docId |-> docId,
     from |-> id]
errorResult(name, message, id) ==
    [name |-> name, status |-> "error", error |-> message, from |-> id]

uploadFile(name, id, response) ==
    IF response.type = "network"
    THEN errorResult(name, "Failed to fetch", id)
    ELSE IF ~response.ok
    THEN LET errorData_detail == IF response.json THEN response.detail ELSE ""
         IN  errorResult(name,
                 IF errorData_detail # ""
                 THEN errorData_detail
                 ELSE "Upload failed (" \o ToString(response.status) \o ")",
                 id)
    ELSE IF ~response.json
    THEN errorResult(name, "Unexpected end of JSON input", id)
    ELSE successResult(name, response.chunks, response.doc_id, id)

\* The value of a field the parsed body does not have.
undefined == [kind |-> "undefined"]

\* FileUploader.tsx: the body of a non-2xx answer is parsed without a catch,
\* the fallback message is `HTTP ${status}`, the chunk count is read from
\* `chunks_created` (a field the answers of POST /upload-document do not
\* have) and no document id is returned.
uploadFile_alt(name, id, response) ==
    IF response.type = "network"
    THEN errorResult(name, "Failed to fetch", id)
    ELSE IF ~response.json
    THEN errorResult(name, "Unexpected end of JSON input", id)
    ELSE IF ~response.ok
    THEN errorResult(name,
             IF response.detail # ""
             THEN response.detail
             ELSE "HTTP " \o ToString(response.status),
             id)
    ELSE [name |-> name, status |-> "success", chunks |-> undefined, from |-> id]

----------------------------------------------------------------------------
(* The tracked-file list *)

\* { name, status: "uploading" } for each file of the list, numbered from
\* `first`.
initialFiles(fileList, first) ==
    [i \in 1..Len(fileList) |->
        [name |-> fileList[i].name, status |-> "uploading",
         id |-> first + i - 1, from |-> 0]]

\* findIndex matching on the name alone.
findIndex_byName(newFiles, result) ==
    LET hits == {i \in 1..Len(newFiles) : newFiles[i].name = result.name}
    IN  IF hits = {} THEN 0 ELSE SetMin(hits)

\* newFiles.findIndex((f) => f.name === result.name && f.status === "uploading"),
\* 1-based; 0 where the code has -1.
findIndex(newFiles, result) ==
    LET hits == {i \in 1..Len(newFiles) :
                    /\ newFiles[i].name = result.name
                    /\ newFiles[i].status = "uploading"}
    IN  IF hits = {} THEN 0 ELSE SetMin(hits)

\* newFiles[fileIndex] = result.  The entry keeps its id (history).
replaceAt(newFiles, fileIndex, result) ==
    [newFiles EXCEPT ![fileIndex] = result @@ [id |-> newFiles[fileIndex].id]]

\* An updater that appends the result when no Uploading entry has its name.
RECURSIVE applyResults_appendsMissing(_, _, _)
applyResults_appendsMissing(newFiles, uploadResults, i) ==
    IF i > Len(uploadResults) THEN newFiles
    ELSE LET fileIndex == findIndex(newFiles, uploadResults[i])
         IN  applyResults_appendsMissing(
                 IF fileIndex >= 1
                 THEN replaceAt(newFiles, fileIndex, uploadResults[i])
                 ELSE Append(newFiles, uploadResults[i] @@ [id |-> 0]),
                 uploadResults, i + 1)

\* uploadResults.forEach(...) of the setFiles updater, from result i on.
RECURSIVE applyResults(_, _, _)
applyResults(newFiles, uploadResults, i) ==
    IF i > Len(uploadResults) THEN newFiles
    ELSE LET fileIndex == findIndex(newFiles, uploadResults[i])
         IN  applyResults(
                 IF fileIndex >= 1
                 THEN replaceAt(newFiles, fileIndex, uploadResults[i])
                 ELSE newFiles,
                 uploadResults, i + 1)

----------------------------------------------------------------------------
(* Inputs *)

file(name, size) == [name |-> name, size |-> size]

\* The files a user drops or selects: two of accepted types and sizes (one
\* of them exactly at the limit), one of a type no component accepts, one
\* over the size limit.
DropFiles ==
    { file(<<"a", ".", "p", "d", "f">>, 1),
      file(<<"b", ".", "m", "d">>, maxFileSize),
      file(<<"c", ".", "e", "x", "e">>, 1),
      file(<<"b", ".", "m", "d">>, maxFileSize + 1) }

FileLists == UNION {[1..n -> DropFiles] : n \in 1..MaxUploads}

\* The answers of the backend to one upload request.
Responses ==
    { httpResponse(TRUE, 200, TRUE, "", 3, "doc-1"),
      httpResponse(FALSE, 500, TRUE, "Error processing file", 0, ""),
      networkFailure }

----------------------------------------------------------------------------
(* State *)

pendingResult == [status |-> "pending"]

\* The call of a handleFileUpload that would start the request of file i + 1
\* only when the request of file i has been answered: the requests after the
\* first are not issued yet.
notStarted == [status |-> "not started"]

newCall_sequential(fileList, first) ==
    [names |-> [i \in 1..Len(fileList) |-> fileList[i].name],
     ids |-> [i \in 1..Len(fileList) |-> first + i - 1],
     results |-> [i \in 1..Len(fileList) |->
                     IF i = 1 THEN pendingResult ELSE notStarted]]

\* One handleFileUpload call between its two setFiles: the names of its
\* files, the ids of the entries it created for them (history), and what
\* each uploadFile promise has settled to so far.
newCall(fileList, first) ==
    [names |-> [i \in 1..Len(fileList) |-> fileList[i].name],
     ids |-> [i \in 1..Len(fileList) |-> first + i - 1],
     results |-> [i \in 1..Len(fileList) |-> pendingResult]]

ids(list) == {list[i].id : i \in 1..Len(list)}

Variants == {"uploader", "alt"}

\* The page as it is after the first render: the initial value of every
\* useState, nothing in flight, nothing recorded.
Mounted ==
    /\ files = <<>>
    /\ error = null
    /\ isUploading = FALSE
    /\ inFlight = {}
    /\ uploadedFiles = <<>>
    /\ nextId = 1
    /\ removed = {}
    /\ returned = null
    /\ backendStatus = "checking"
    /\ messages = <<>>
    /\ input = <<>>
    /\ loading = FALSE
    /\ sends = {}
    /\ requests = <<>>

Init ==
    /\ variant \in Variants
    /\ chatVariant = "chat"
    /\ Mounted

----------------------------------------------------------------------------
(* part_002: FileUploader({ onFilesUploaded }) *)

\* Home.handleFilesUploaded: setUploadedFiles((prev) => [...prev, ...results])
handleFilesUploaded(results) ==
    uploadedFiles' = uploadedFiles \o results

\* handleFileUpload with the validation result ignored (no early return).
handleFileUpload_noValidation(fileList) ==
    /\ error' = null
    /\ isUploading' = TRUE
    /\ files' = files \o initialFiles(fileList, nextId)
    /\ inFlight' = inFlight \cup {newCall(fileList, nextId)}
    /\ nextId' = nextId + Len(fileList)
    /\ UNCHANGED <<variant, uploadedFiles, removed>>

\* handleFileUpload up to `await Promise.all(...)`: every uploadFile call has
\* run to its `await fetch`, so every request of the batch is out.
handleFileUpload(fileList) ==
    LET validationError == validateFiles(fileList)
    IN  IF validationError # null
        THEN /\ error' = validationError
             /\ UNCHANGED <<variant, files, isUploading, inFlight, uploadedFiles,
                            nextId, removed>>
        ELSE /\ error' = null
             /\ isUploading' = TRUE
             /\ files' = files \o initialFiles(fileList, nextId)
             /\ inFlight' = inFlight \cup {newCall(fileList, nextId)}
             /\ nextId' = nextId + Len(fileList)
             /\ UNCHANGED <<variant, uploadedFiles, removed>>

\* A handleFileUpload that issues the failed requests of the batch again
\* instead of writing the results back.
handleFileUploadResume_retry(call, uploadResults) ==
    IF \E i \in 1..Len(uploadResults) : uploadResults[i].status = "error"
    THEN /\ inFlight' = (inFlight \ {call}) \cup
                 {[call EXCEPT !.results =
                      [i \in 1..Len(uploadResults) |->
                          IF uploadResults[i].status = "error"
                          THEN pendingResult ELSE uploadResults[i]]]}
         /\ UNCHANGED <<variant, files, error, isUploading, uploadedFiles, nextId,
                        removed>>
    ELSE /\ files' = applyResults(files, uploadResults, 1)
         /\ isUploading' = FALSE
         /\ handleFilesUploaded(uploadResults)
         /\ inFlight' = inFlight \ {call}
         /\ UNCHANGED <<variant, error, nextId, removed>>

\* A handleFileUpload that reports only the successful results.
handleFileUploadResume_reportsSuccesses(call, uploadResults) ==
    /\ files' = applyResults(files, uploadResults, 1)
    /\ isUploading' = FALSE
    /\ handleFilesUploaded(SelectSeq(uploadResults,
                                     LAMBDA result : result.status = "success"))
    /\ inFlight' = inFlight \ {call}
    /\ UNCHANGED <<variant, error, nextId, removed>>

\* handleFileUpload after `await Promise.all(...)`.
handleFileUploadResume(call, uploadResults) ==
    /\ files' = applyResults(files, uploadResults, 1)
    /\ isUploading' = FALSE
    /\ handleFilesUploaded(uploadResults)
    /\ inFlight' = inFlight \ {call}
    /\ UNCHANGED <<variant, error, nextId, removed>>

\* The request for file i of an in-flight call ends in `response`; when it
\* was the last one pending, Promise.all resolves and the call resumes in
\* the same turn of the event loop.
uploadFileSettles(call, i, response) ==
    /\ variant = "uploader"
    /\ call \in inFlight
    /\ i \in 1..Len(call.results)
    /\ call.results[i] = pendingResult
    /\ UNCHANGED <<returned, backendStatus, chatVars>>
    /\ LET uploadResults ==
               [call.results EXCEPT
                   ![i] = uploadFile(call.names[i], call.ids[i], response)]
       IN  IF \A j \in 1..Len(uploadResults) : uploadResults[j] # pendingResult
           THEN handleFileUploadResume(call, uploadResults)
           ELSE /\ inFlight' = (inFlight \ {call})
                                  \cup {[call EXCEPT !.results = uploadResults]}
                /\ UNCHANGED <<variant, files, error, isUploading, uploadedFiles,
                               nextId, removed>>

\* The room the bound leaves: a list is submitted only while the entries it
\* would create fit.
Room(fileList) == nextId + Len(fileList) - 1 <= MaxUploads

\* <input type="file" disabled={isUploading} onChange={handleFileSelect}>
handleFileSelect(fileList) ==
    /\ variant = "uploader"
    /\ ~isUploading
    /\ Len(fileList) > 0
    /\ Room(fileList)
    /\ handleFileUpload(fileList)
    /\ UNCHANGED <<returned, backendStatus, chatVars>>

\* onDrop={handleDrop}: not disabled while an upload is in progress.
handleDrop(fileList) ==
    /\ variant = "uploader"
    /\ Len(fileList) > 0
    /\ Room(fileList)
    /\ handleFileUpload(fileList)
    /\ UNCHANGED <<returned, backendStatus, chatVars>>

\* The remove button is rendered for entries whose status is not "uploading".
removeFile(index) ==
    /\ index \in 1..Len(files)
    /\ files[index].status # "uploading"
    /\ files' = [i \in 1..(Len(files) - 1) |->
                    IF i < index THEN files[i] ELSE files[i + 1]]
    /\ removed' = removed \cup {files[index].id}
    /\ UNCHANGED <<variant, error, isUploading, inFlight, uploadedFiles, nextId>>
    /\ UNCHANGED <<returned, backendStatus, chatVars>>

\* A "Clear All" that also empties the results Home holds.
clearAll_resetsReports ==
    /\ variant = "uploader"
    /\ Len(files) > 0
    /\ files' = <<>>
    /\ error' = null
    /\ uploadedFiles' = <<>>
    /\ removed' = removed \cup ids(files)
    /\ UNCHANGED <<variant, isUploading, inFlight, nextId>>
    /\ UNCHANGED <<returned, backendStatus, chatVars>>

\* "Clear All" is rendered when files.length > 0.
clearAll ==
    /\ variant = "uploader"
    /\ Len(files) > 0
    /\ files' = <<>>
    /\ error' = null
    /\ removed' = removed \cup ids(files)
    /\ UNCHANGED <<variant, isUploading, inFlight, uploadedFiles, nextId>>
    /\ UNCHANGED <<returned, backendStatus, chatVars>>

----------------------------------------------------------------------------
(* FileUploader.tsx: FileUploader({ onFilesSelected, onUploadComplete }) *)

\* The list is replaced, no request is issued, isUploading is not reset.
handleFileUpload_alt(fileList) ==
    LET validationError == validateFiles_alt(fileList)
    IN  IF validationError # null
        THEN /\ error' = validationError
             /\ UNCHANGED <<variant, files, isUploading, inFlight, uploadedFiles,
                            nextId, removed>>
        ELSE /\ isUploading' = TRUE
             /\ error' = null
             /\ files' = initialFiles(fileList, nextId)
             /\ nextId' = nextId + Len(fileList)
             /\ UNCHANGED <<variant, inFlight, uploadedFiles, removed>>

\* <input type="file" disabled={isUploading} onChange={handleFileChange}>
handleFileChange_alt(fileList) ==
    /\ variant = "alt"
    /\ ~isUploading
    /\ Len(fileList) > 0
    /\ Room(fileList)
    /\ handleFileUpload_alt(fileList)
    /\ UNCHANGED <<returned, backendStatus, chatVars>>

handleDrop_alt(fileList) ==
    /\ variant = "alt"
    /\ Len(fileList) > 0
    /\ Room(fileList)
    /\ handleFileUpload_alt(fileList)
    /\ UNCHANGED <<returned, backendStatus, chatVars>>

----------------------------------------------------------------------------

\* Some request in flight is answered.
uploadSettles ==
    \E call \in inFlight : \E i \in 1..Len(call.results) :
        \E response \in Responses : uploadFileSettles(call, i, response)

\* The remove button of some entry is clicked.
removeClicked == \E index \in 1..Len(files) : removeFile(index)

Next ==
    \/ \E fileList \in FileLists : handleFileSelect(fileList)
    \/ \E fileList \in FileLists : handleDrop(fileList)
    \/ uploadSettles
    \/ removeClicked
    \/ clearAll
    \/ \E fileList \in FileLists : handleFileChange_alt(fileList)
    \/ \E fileList \in FileLists : handleDrop_alt(fileList)

Spec == Init /\ [][Next]_vars

\* The FileUploader whose user removes entries one at a time and never
\* clears the list: `removed` then holds the entries removeFile removed.
NextRemoval ==
    \/ \E fileList \in FileLists : handleFileSelect(fileList)
    \/ \E fileList \in FileLists : handleDrop(fileList)
    \/ uploadSettles
    \/ removeClicked
    \/ \E fileList \in FileLists : handleFileChange_alt(fileList)
    \/ \E fileList \in FileLists : handleDrop_alt(fileList)

SpecRemoval == Init /\ [][NextRemoval]_vars

\* The FileUploader with a transport that answers or fails every upload
\* request it was handed.
SpecLive == Spec /\ WF_vars(uploadSettles)

----------------------------------------------------------------------------
(* Validation alone: one submission to the freshly mounted component, the   *)
(* file list drawn from names and sizes that exercise split, pop and        *)
(* toLowerCase and both sides of the size limit.                            *)

ValidateNames ==
    { <<"a", ".", "p", "d", "f">>,          \* a.pdf
      <<"a", ".", "P", "D", "F">>,          \* a.PDF
      <<"p", "d", "f">>,                    \* pdf      (no ".")
      <<"a", ".", "d", "o", "c">>,          \* a.doc
      <<"a", ".", "c", "s", "v">>,          \* a.csv
      <<"d", ".", "t", "x", "t">>,          \* d.txt
      <<"c", ".", "e", "x", "e">>,          \* c.exe
      <<"r", "e", "a", "d", "m", "e">>,     \* readme   (no ".")
      <<"a", ".", "b", ".", "m", "d">>,     \* a.b.md
      <<"a", ".">> }                        \* a.

ValidateSizes == {1, maxFileSize, maxFileSize + 1}

ValidateFileSet == {file(n, sz) : n \in ValidateNames, sz \in ValidateSizes}

ValidateLists == UNION {[1..n -> ValidateFileSet] : n \in 1..MaxUploads}

Fresh == nextId = 1 /\ error = null

firstDrop(fileList) == Fresh /\ handleDrop(fileList)

firstDrop_alt(fileList) == Fresh /\ handleDrop_alt(fileList)

NextValidate ==
    \/ \E fileList \in ValidateLists : firstDrop(fileList)
    \/ \E fileList \in ValidateLists : firstDrop_alt(fileList)

SpecValidate == Init /\ [][NextValidate]_vars

----------------------------------------------------------------------------
(* uploadFile alone: one call of the function of either component, on a     *)
(* file name and an outcome of the request drawn from every kind of answer. *)

UploadNames ==
    { <<"a", ".", "p", "d", "f">>, <<"b", ".", "m", "d">>, <<"d", ".", "t", "x", "t">> }

UploadResponses ==
    {networkFailure}
    \cup {httpResponse(FALSE, st, FALSE, "", 0, "") : st \in {400, 413, 500}}
    \cup {httpResponse(FALSE, st, TRUE, d, 0, "") :
             st \in {400, 413, 500},
             d \in {"", "Error processing file", "Unsupported file type"}}
    \cup {httpResponse(TRUE, 200, FALSE, "", 0, "")}
    \cup {httpResponse(TRUE, 200, TRUE, "", n, d) :
             n \in {0, 3, 12}, d \in {"doc-1", "doc-2"}}

\* const result = await uploadFile(file), in the part_002 component.
uploadFileReturns(name, response) ==
    /\ variant = "uploader"
    /\ returned = null
    /\ returned' = [name |-> name, response |-> response,
                    result |-> uploadFile(name, 0, response)]
    /\ UNCHANGED <<variant, files, error, isUploading, inFlight, uploadedFiles,
                   nextId, removed, backendStatus, chatVars>>

\* The same call of the function FileUploader.tsx defines.
uploadFileReturns_alt(name, response) ==
    /\ variant = "alt"
    /\ returned = null
    /\ returned' = [name |-> name, response |-> response,
                    result |-> uploadFile_alt(name, 0, response)]
    /\ UNCHANGED <<variant, files, error, isUploading, inFlight, uploadedFiles,
                   nextId, removed, backendStatus, chatVars>>

NextUploadFile ==
    \/ \E name \in UploadNames : \E response \in UploadResponses :
           uploadFileReturns(name, response)
    \/ \E name \in UploadNames : \E response \in UploadResponses :
           uploadFileReturns_alt(name, response)

SpecUploadFile == Init /\ [][NextUploadFile]_vars

----------------------------------------------------------------------------
(* ChatBox.  The repository holds two ChatBox components:                   *)
(*   "chat" : src/unnamed/part_003, which queries POST /query and then      *)
(*            POST /chat;                                                   *)
(*   "alt"  : src/frontend/app/components/ChatBox.tsx, which queries        *)
(*            POST /query and builds the reply itself.                      *)
(* `chatVariant` says which of the two is mounted; it never changes.        *)
(*                                                                          *)
(* The text in the textarea and the messages of thrown errors are sequences *)
(* of characters (trim, toLowerCase and includes are computed); the fixed   *)
(* texts of the components and the texts of the backend are strings.  The   *)
(* content of a message is [typed |-> characters] for a User message and    *)
(* [text |-> string] for an Assistant message.  The timestamps are left     *)
(* out.                                                                     *)

ChatVariants == {"chat", "alt"}

\* Questions asked (User messages appended) in one behaviour.
MaxQuestions == 2

\* const hasSuccessfulUploads = uploadedFiles.some((file) => file.status === "success"),
\* passed as <ChatBox hasDocuments={hasSuccessfulUploads} />.
hasSuccessfulUploads ==
    \E i \in 1..Len(uploadedFiles) : uploadedFiles[i].status = "success"

hasDocuments == hasSuccessfulUploads

\* A trim that removes nothing.
trim_nothing(s) == s

\* String.prototype.trim, blanks being the only white space of the inputs.
trim(s) ==
    LET kept == {i \in 1..Len(s) : s[i] # " "}
    IN  IF kept = {} THEN <<>> ELSE SubSeq(s, SetMin(kept), SetMax(kept))

\* String.prototype.includes.
includesText(s, sub) ==
    \E i \in 0..(Len(s) - Len(sub)) : SubSeq(s, i + 1, i + Len(sub)) = sub

\* Array.prototype.slice(start, end).
slice(list, start, end) ==
    SubSeq(list, start + 1, IF end < Len(list) THEN end ELSE Len(list))

\* Array.prototype.join, from element i on.
RECURSIVE joinFrom(_, _, _)
joinFrom(list, separator, i) ==
    IF i > Len(list) THEN ""
    ELSE IF i = Len(list) THEN list[i]
    ELSE list[i] \o separator \o joinFrom(list, separator, i + 1)

join(list, separator) == joinFrom(list, separator, 1)

\* The decimal digits of a status code, as `${response.status}` writes them.
RECURSIVE digits(_)
digits(n) ==
    LET digit == <<"0", "1", "2", "3", "4", "5", "6", "7", "8", "9">>[(n % 10) + 1]
    IN  IF n < 10 THEN <<digit>> ELSE Append(digits(n \div 10), digit)

\* What the user can type: a blank and two questions.
Texts == { <<" ">>, <<"h", "i">>, <<"w", "h", "y", "?">> }

(* Messages *)

userMessage(content) ==
    [role |-> "user", content |-> [typed |-> content],
     hasSources |-> FALSE, sources |-> <<>>]

\* { role: "bot", content, timestamp }
botMessage(content) ==
    [role |-> "bot", content |-> [text |-> content],
     hasSources |-> FALSE, sources |-> <<>>]

\* { role: "bot", content, timestamp, sources }
botMessageWithSources(content, sources) ==
    [role |-> "bot", content |-> content, hasSources |-> TRUE, sources |-> sources]

uploadFirstText ==
    "Please upload some documents first so I can help answer questions about them."

noInformationText ==
    "I couldn't find any relevant information in your documents to answer that question."

noInformationText_alt ==
    "I couldn't find any relevant information in the uploaded documents to answer your question."

errorText_alt ==
    "Sorry, I encountered an error while searching through your documents. Please try again."

(* The outcomes of a request of the ChatBox *)

\* fetch rejects: a TypeError whose message is the browser's.
FetchFailureMessages ==
    { <<"F", "a", "i", "l", "e", "d", " ", "t", "o", " ", "f", "e", "t", "c", "h">>,
      <<"L", "o", "a", "d", " ", "f", "a", "i", "l", "e", "d">>,
      <<"N", "e", "t", "w", "o", "r", "k", "E", "r", "r", "o", "r", " ", "w", "h",
        "e", "n", " ", "a", "t", "t", "e", "m", "p", "t", "i", "n", "g", " ", "t",
        "o", " ", "f", "e", "t", "c", "h", " ", "r", "e", "s", "o", "u", "r", "c",
        "e", ".">> }

fetchFailure(message) ==
    [type |-> "network", ok |-> FALSE, status |-> 0, json |-> FALSE,
     message |-> message]

\* An answer of POST /query: `json` says whether the body parses, hasResults
\* whether the parsed body has a `results` field.
queryAnswer(ok, status, json, hasResults, results) ==
    [type |-> "response", ok |-> ok, status |-> status, json |-> json,
     hasResults |-> hasResults, results |-> results]

\* An answer of POST /chat: hasResponse says whether the parsed body has a
\* `response` field.
chatAnswer(ok, status, json, hasResponse, response) ==
    [type |-> "response", ok |-> ok, status |-> status, json |-> json,
     hasResponse |-> hasResponse, response |-> response]

\* body: JSON.stringify({ query, top_k: 5 })
top_k == 5

\* The i-th passage of a retrieval result, in relevance order.
passage(i) ==
    [content |-> "passage " \o ToString(i),
     filename |-> "doc" \o ToString(i) \o ".pdf",
     score |-> 10 - i]

\* The numbers of passages a retrieval returns: none, fewer than the three
\* the context takes, and top_k.
ResultCounts == {0, 2, top_k}

QueryResponses ==
    {fetchFailure(m) : m \in FetchFailureMessages}
    \cup {queryAnswer(FALSE, 500, TRUE, FALSE, <<>>)}
    \cup {queryAnswer(TRUE, 200, FALSE, FALSE, <<>>)}
    \cup {queryAnswer(TRUE, 200, TRUE, FALSE, <<>>)}
    \cup {queryAnswer(TRUE, 200, TRUE, TRUE, [i \in 1..n |-> passage(i)]) :
             n \in ResultCounts}

ChatResponses ==
    {fetchFailure(m) : m \in FetchFailureMessages}
    \cup {chatAnswer(FALSE, 500, TRUE, FALSE, "")}
    \cup {chatAnswer(TRUE, 200, FALSE, FALSE, "")}
    \cup {chatAnswer(TRUE, 200, TRUE, FALSE, "")}
    \cup {chatAnswer(TRUE, 200, TRUE, TRUE, "The documents say so.")}

(* The catch block of part_003 *)

\* new Error(message), a TypeError and a SyntaxError alike.
Error(message) == [instanceofError |-> TRUE, message |-> message]

\* What response.json() throws on a body that is not JSON.
SyntaxError ==
    Error(<<"U", "n", "e", "x", "p", "e", "c", "t", "e", "d", " ", "t", "o", "k",
            "e", "n", " ", "<", " ", "i", "n", " ", "J", "S", "O", "N", " ", "a",
            "t", " ", "p", "o", "s", "i", "t", "i", "o", "n", " ", "0">>)

\* throw new Error(`Query failed: ${queryResponse.status}`)
queryFailed(status) ==
    Error(<<"Q", "u", "e", "r", "y", " ", "f", "a", "i", "l", "e", "d", ":", " ">>
          \o digits(status))

\* throw new Error(`Chat failed: ${chatResponse.status}`)
chatFailed(status) ==
    Error(<<"C", "h", "a", "t", " ", "f", "a", "i", "l", "e", "d", ":", " ">>
          \o digits(status))

somethingWentWrong == "Sorry, something went wrong. Please try again."
cantConnect == "Can't connect to the server. Make sure it's running;"
failedToSearch == "Failed to search documents. Please try again."
serviceUnavailable == "AI service unavailable. Check your OpenRouter API key."

\* let errorMessage = ...; if (error instanceof Error) { ... }
errorMessage(thrown) ==
    IF ~thrown.instanceofError THEN somethingWentWrong
    ELSE LET msg == toLowerCase(thrown.message)
         IN  IF \/ includesText(msg, <<"f", "a", "i", "l", "e", "d", " ", "t", "o",
                                      " ", "f", "e", "t", "c", "h">>)
                \/ includesText(msg, <<"n", "e", "t", "w", "o", "r", "k">>)
             THEN cantConnect
             ELSE IF includesText(msg, <<"q", "u", "e", "r", "y", " ", "f", "a", "i",
                                         "l", "e", "d">>)
             THEN failedToSearch
             ELSE IF includesText(msg, <<"c", "h", "a", "t", " ", "f", "a", "i", "l",
                                         "e", "d">>)
             THEN serviceUnavailable
             ELSE somethingWentWrong

(* part_003: ChatBox({ hasDocuments }) *)

\* `Source ${index + 1} (${result.filename}):\n${result.content}` of the first
\* three results, joined by "\n\n---\n\n".
context(results) ==
    LET top == slice(results, 0, 3)
    IN  join([index \in 1..Len(top) |->
                 "Source " \o ToString(index) \o " (" \o top[index].filename
                     \o "):\n" \o top[index].content],
             "\n\n---\n\n")

\* The requests, with `at`, the position of the turn's User message in the
\* log (history).
queryRequest(query, at) ==
    [url |-> "/query", body |-> [query |-> query, top_k |-> top_k], at |-> at]

chatRequest(query, text, at) ==
    [url |-> "/chat", body |-> [query |-> query, context |-> text], at |-> at]

\* A handleSend call suspended at `await fetch(...)`: where it is (pc), its
\* constants currentQuery and newMessages (the latter only in ChatBox.tsx),
\* the results it holds once /query is answered, and `at` (history).
suspended(pc, currentQuery, newMessages, results, at) ==
    [pc |-> pc, currentQuery |-> currentQuery, newMessages |-> newMessages,
     results |-> results, at |-> at]

\* The test that lets every answer through.
noResults_never(queryData) == FALSE

\* The test that looks for a missing list only: an empty list passes.
noResults_missingOnly(queryData) == ~queryData.hasResults

\* !queryData.results || queryData.results.length === 0
noResults(queryData) == ~queryData.hasResults \/ Len(queryData.results) = 0

\* A handleSend that does not append the User message.
handleSend_noUserMessage ==
    IF trim(input) = <<>> \/ loading
    THEN UNCHANGED <<messages, input, loading, sends, requests>>
    ELSE IF ~hasDocuments
    THEN /\ messages' = Append(messages, botMessage(uploadFirstText))
         /\ input' = <<>>
         /\ loading' = FALSE
         /\ UNCHANGED <<sends, requests>>
    ELSE /\ messages' = messages
         /\ input' = <<>>
         /\ loading' = TRUE
         /\ requests' = Append(requests, queryRequest(input, Len(messages) + 1))
         /\ sends' = sends \cup
                {suspended("query", input, <<>>, <<>>, Len(messages) + 1)}

\* handleSend up to `await fetch(".../query")`, or to its end when it
\* returns before.
handleSend ==
    IF trim(input) = <<>> \/ loading
    THEN UNCHANGED <<messages, input, loading, sends, requests>>
    ELSE LET currentQuery == input
         IN  IF ~hasDocuments
             THEN /\ messages' = messages \o
                         <<userMessage(input), botMessage(uploadFirstText)>>
                  /\ input' = <<>>
                  /\ loading' = FALSE
                  /\ UNCHANGED <<sends, requests>>
             ELSE /\ messages' = Append(messages, userMessage(input))
                  /\ input' = <<>>
                  /\ loading' = TRUE
                  /\ requests' = Append(requests,
                         queryRequest(currentQuery, Len(messages) + 1))
                  /\ sends' = sends \cup
                         {suspended("query", currentQuery, <<>>, <<>>,
                                    Len(messages) + 1)}

\* A catch block that swallows the failure: no message, loading left as it is.
catch_stuck(send, thrown) ==
    /\ sends' = sends \ {send}
    /\ UNCHANGED <<messages, input, loading, requests>>

\* A catch block that appends no message before finally clears loading.
catch_noReply(send, thrown) ==
    /\ loading' = FALSE
    /\ sends' = sends \ {send}
    /\ UNCHANGED <<messages, input, requests>>

\* catch (error) { ... } finally { setLoading(false) }
catch(send, thrown) ==
    /\ messages' = Append(messages, botMessage(errorMessage(thrown)))
    /\ loading' = FALSE
    /\ sends' = sends \ {send}
    /\ UNCHANGED <<input, requests>>

\* handleSend from the answer of /query to `await fetch(".../chat")`, or to
\* its end.
handleSendQueried(send, queryResponse) ==
    IF queryResponse.type = "network"
    THEN catch(send, Error(queryResponse.message))
    ELSE IF ~queryResponse.ok
    THEN catch(send, queryFailed(queryResponse.status))
    ELSE IF ~queryResponse.json
    THEN catch(send, SyntaxError)
    ELSE LET queryData == queryResponse
         IN  IF noResults(queryData)
             THEN /\ messages' = Append(messages, botMessage(noInformationText))
                  /\ loading' = FALSE
                  /\ sends' = sends \ {send}
                  /\ UNCHANGED <<input, requests>>
             ELSE /\ requests' = Append(requests,
                         chatRequest(send.currentQuery, context(queryData.results),
                                     send.at))
                  /\ sends' = (sends \ {send}) \cup
                         {suspended("chat", send.currentQuery, <<>>,
                                    queryData.results, send.at)}
                  /\ UNCHANGED <<messages, input, loading>>

\* handleSend from the answer of /chat to its end.
handleSendAnswered(send, chatResponse) ==
    IF chatResponse.type = "network"
    THEN catch(send, Error(chatResponse.message))
    ELSE IF ~chatResponse.ok
    THEN catch(send, chatFailed(chatResponse.status))
    ELSE IF ~chatResponse.json
    THEN catch(send, SyntaxError)
    ELSE LET chatData == chatResponse
         IN  /\ messages' = Append(messages,
                    botMessageWithSources(
                        IF chatData.hasResponse
                        THEN [text |-> chatData.response] ELSE undefined,
                        slice(send.results, 0, 3)))
             /\ loading' = FALSE
             /\ sends' = sends \ {send}
             /\ UNCHANGED <<input, requests>>

(* ChatBox.tsx: ChatBox({ hasDocuments }) *)

\* String.prototype.substring(start, end), 0 <= start <= end.
substring(string, start, end) ==
    SubSeq(string, start + 1, IF end < Len(string) THEN end ELSE Len(string))

\* const context = topSources.map((s) => s.content).join("\n\n")
context_alt(sources) ==
    LET topSources == slice(sources, 0, 3)
    IN  join([i \in 1..Len(topSources) |-> topSources[i].content], "\n\n")

\* generateResponse(sources): the first 500 characters of the context, and
\* "..." when it has more.
generateResponse(sources) ==
    IF Len(sources) = 0
    THEN noInformationText_alt
    ELSE "Based on the uploaded documents, here's what I found:\n\n"
             \o substring(context_alt(sources), 0, 500)
             \o (IF Len(context_alt(sources)) > 500 THEN "..." ELSE "")

\* The handleSend of ChatBox.tsx without its look at hasDocuments.
handleSend_alt_noDocumentsCheck ==
    IF trim(input) = <<>>
    THEN UNCHANGED <<messages, input, loading, sends, requests>>
    ELSE /\ messages' = Append(messages, userMessage(input))
         /\ input' = <<>>
         /\ loading' = TRUE
         /\ requests' = Append(requests, queryRequest(input, Len(messages) + 1))
         /\ sends' = sends \cup
                {suspended("query", input, Append(messages, userMessage(input)),
                           <<>>, Len(messages) + 1)}

\* A handleSend that leaves the typed text in the input.
handleSend_alt_keepsInput ==
    IF trim(input) = <<>>
    THEN UNCHANGED <<messages, input, loading, sends, requests>>
    ELSE LET newMessages == Append(messages, userMessage(input))
         IN  /\ messages' = newMessages
             /\ loading' = TRUE
             /\ requests' = Append(requests, queryRequest(input, Len(newMessages)))
             /\ sends' = sends \cup
                    {suspended("query", input, newMessages, <<>>,
                               Len(newMessages))}
             /\ UNCHANGED input

\* handleSend up to `await queryDocuments(input)`, or to its end.  messages
\* is the list of the render the handler was created in.
handleSend_alt ==
    IF trim(input) = <<>>
    THEN UNCHANGED <<messages, input, loading, sends, requests>>
    ELSE LET newMessages == Append(messages, userMessage(input))
         IN  IF ~hasDocuments
             THEN /\ messages' = Append(newMessages, botMessage(uploadFirstText))
                  /\ input' = <<>>
                  /\ loading' = FALSE
                  /\ UNCHANGED <<sends, requests>>
             ELSE /\ messages' = newMessages
                  /\ input' = <<>>
                  /\ loading' = TRUE
                  /\ requests' = Append(requests, queryRequest(input, Len(newMessages)))
                  /\ sends' = sends \cup
                         {suspended("query", input, newMessages, <<>>,
                                    Len(newMessages))}

\* catch (error) { setMessages([...newMessages, ...]) } finally { ... }
catch_alt(send) ==
    /\ messages' = Append(send.newMessages, botMessage(errorText_alt))
    /\ loading' = FALSE
    /\ sends' = sends \ {send}
    /\ UNCHANGED <<input, requests>>

\* handleSend from the answer of /query to its end.  A body without
\* `results` makes generateResponse throw a TypeError (sources.length).
handleSendQueried_alt(send, response) ==
    IF response.type = "network" \/ ~response.ok \/ ~response.json
           \/ ~response.hasResults
    THEN catch_alt(send)
    ELSE LET queryResult == response
         IN  /\ messages' = Append(send.newMessages,
                    botMessageWithSources(
                        [text |-> generateResponse(queryResult.results)],
                        queryResult.results))
             /\ loading' = FALSE
             /\ sends' = sends \ {send}
             /\ UNCHANGED <<input, requests>>

(* The events of the ChatBox *)

\* A textarea that is never disabled.
textareaDisabled_never == FALSE

\* <Textarea disabled={...}>: loading || !hasDocuments in part_003, loading
\* in ChatBox.tsx.
textareaDisabled ==
    IF chatVariant = "chat" THEN loading \/ ~hasDocuments ELSE loading

\* <Button disabled={loading || !input.trim() || !hasDocuments}>
buttonDisabled == loading \/ trim(input) = <<>> \/ ~hasDocuments

UserMessages == {i \in 1..Len(messages) : messages[i].role = "user"}

\* The room the bound leaves for another question.
RoomToAsk == Cardinality(UserMessages) < MaxQuestions

\* A textarea that takes text while it is disabled.
setInput_whileDisabled(text) ==
    /\ RoomToAsk
    /\ text # input
    /\ input' = text
    /\ UNCHANGED <<uploadVars, chatVariant, messages, loading, sends, requests>>

\* onChange={(e) => setInput(e.target.value)}
setInput(text) ==
    /\ ~textareaDisabled
    /\ RoomToAsk
    /\ text # input
    /\ input' = text
    /\ UNCHANGED <<uploadVars, chatVariant, messages, loading, sends, requests>>

\* onKeyDown={handleKeyDown}: Enter without Shift in the enabled textarea.
handleKeyDown ==
    /\ ~textareaDisabled
    /\ RoomToAsk
    /\ IF chatVariant = "chat" THEN handleSend ELSE handleSend_alt
    /\ UNCHANGED <<uploadVars, chatVariant>>

\* A send button that works only while the backend is reported healthy.
sendClicked_whenHealthy ==
    /\ backendStatus = "healthy"
    /\ ~buttonDisabled
    /\ RoomToAsk
    /\ IF chatVariant = "chat" THEN handleSend ELSE handleSend_alt
    /\ UNCHANGED <<uploadVars, chatVariant>>

\* onClick={handleSend} of the enabled button.
sendClicked ==
    /\ ~buttonDisabled
    /\ RoomToAsk
    /\ IF chatVariant = "chat" THEN handleSend ELSE handleSend_alt
    /\ UNCHANGED <<uploadVars, chatVariant>>

\* POST /query is answered.
queryAnswered(send, response) ==
    /\ send \in sends
    /\ send.pc = "query"
    /\ IF chatVariant = "chat"
       THEN handleSendQueried(send, response)
       ELSE handleSendQueried_alt(send, response)
    /\ UNCHANGED <<uploadVars, chatVariant>>

\* POST /chat is answered.
chatAnswered(send, response) ==
    /\ send \in sends
    /\ send.pc = "chat"
    /\ handleSendAnswered(send, response)
    /\ UNCHANGED <<uploadVars, chatVariant>>

\* The results the FileUploader hands to Home when a batch has resolved.
ReportedResults ==
    { <<successResult(<<"a", ".", "p", "d", "f">>, 3, "doc-1", 0)>>,
      <<errorResult(<<"a", ".", "p", "d", "f">>, "Failed to fetch", 0)>> }

\* onFilesUploaded(uploadResults), the FileUploader being left out.
onFilesUploaded(results) ==
    /\ Len(uploadedFiles) + Len(results) <= MaxUploads
    /\ handleFilesUploaded(results)
    /\ UNCHANGED <<variant, files, error, isUploading, inFlight, nextId, removed,
                   returned, backendStatus, chatVars>>

InitChat ==
    /\ variant = "uploader"
    /\ chatVariant \in ChatVariants
    /\ Mounted

NextChat ==
    \/ \E text \in Texts : setInput(text)
    \/ handleKeyDown
    \/ sendClicked
    \/ \E send \in sends : \E response \in QueryResponses : queryAnswered(send, response)
    \/ \E send \in sends : \E response \in ChatResponses : chatAnswered(send, response)
    \/ \E results \in ReportedResults : onFilesUploaded(results)

SpecChat == InitChat /\ [][NextChat]_vars

\* Some request of the ChatBox is answered (a response, or the rejection of
\* the fetch).
answered ==
    \E send \in sends :
        \/ \E response \in QueryResponses : queryAnswered(send, response)
        \/ \E response \in ChatResponses : chatAnswered(send, response)

\* The first batch of the FileUploader is reported to Home.
firstFilesUploaded ==
    /\ uploadedFiles = <<>>
    /\ \E results \in ReportedResults : onFilesUploaded(results)

NextChatLive ==
    \/ \E text \in Texts : setInput(text)
    \/ handleKeyDown
    \/ sendClicked
    \/ answered
    \/ firstFilesUploaded

\* The ChatBox with a transport that answers or fails every request it was
\* handed.
SpecChatLive == InitChat /\ [][NextChatLive]_vars /\ WF_vars(answered)

(* The context alone: one call of the code that builds the context, on a   *)
(* retrieval result drawn from passages short and long, in relevance order. *)

MaxResults == 4

RECURSIVE repeat(_, _)
repeat(string, count) ==
    IF count = 0 THEN ""
    ELSE IF count % 2 = 1 THEN string \o repeat(string, count - 1)
    ELSE LET half == repeat(string, count \div 2) IN half \o half

\* Passages of 100 and of 300 characters, and two short ones.
ContextPassages ==
    { [content |-> repeat("A", 100), filename |-> "a.pdf", score |-> 9],
      [content |-> repeat("B", 300), filename |-> "b.pdf", score |-> 8],
      passage(3), passage(4) }

\* The results of POST /query: at most MaxResults passages, the most
\* relevant first.
ContextResults ==
    UNION { {results \in [1..n -> ContextPassages] :
                \A i \in 1..(n - 1) : results[i].score >= results[i + 1].score} :
            n \in 0..MaxResults }

\* The context part_003 puts in the body of POST /chat.
contextReturns(results) ==
    /\ chatVariant = "chat"
    /\ returned = null
    /\ returned' = [results |-> results, context |-> context(results)]
    /\ UNCHANGED <<variant, files, error, isUploading, inFlight, uploadedFiles,
                   nextId, removed, backendStatus, chatVars>>

\* The context of generateResponse of ChatBox.tsx, and the reply made of it.
generateResponseReturns(sources) ==
    /\ chatVariant = "alt"
    /\ returned = null
    /\ returned' = [results |-> sources, context |-> context_alt(sources),
                    response |-> generateResponse(sources)]
    /\ UNCHANGED <<variant, files, error, isUploading, inFlight, uploadedFiles,
                   nextId, removed, backendStatus, chatVars>>

NextContext ==
    \/ \E results \in ContextResults : contextReturns(results)
    \/ \E sources \in ContextResults : generateResponseReturns(sources)

SpecContext == InitChat /\ [][NextContext]_vars

(* The page: Home with the part_002 FileUploader and a ChatBox, the results *)
(* of the uploader reaching the ChatBox as hasDocuments.                    *)

NextPage ==
    \/ \E fileList \in FileLists : handleFileSelect(fileList)
    \/ \E fileList \in FileLists : handleDrop(fileList)
    \/ uploadSettles
    \/ \E text \in Texts : setInput(text)
    \/ handleKeyDown
    \/ sendClicked
    \/ answered

SpecPage == InitChat /\ [][NextPage]_vars

(* The health check of Home, with the ChatBox and the results reported to  *)
(* Home.  Home hands its children onFilesUploaded and hasDocuments only.   *)

\* The outcomes of GET /health: the fetch is rejected, a non-2xx answer, a
\* 2xx answer whose body does not parse, and 2xx answers with a status.
HealthResponses ==
    { [type |-> "network", ok |-> FALSE, json |-> FALSE, status |-> ""],
      [type |-> "response", ok |-> FALSE, json |-> TRUE, status |-> ""],
      [type |-> "response", ok |-> TRUE, json |-> FALSE, status |-> ""],
      [type |-> "response", ok |-> TRUE, json |-> TRUE, status |-> "healthy"],
      [type |-> "response", ok |-> TRUE, json |-> TRUE, status |-> "degraded"] }

\* checkBackendHealth from the answer of GET /health on; the request is out
\* from the mount until then.
checkBackendHealth(response) ==
    /\ backendStatus = "checking"
    /\ backendStatus' =
           IF response.type = "network" THEN "unhealthy"
           ELSE IF ~response.ok THEN "unhealthy"
           ELSE IF ~response.json THEN "unhealthy"
           ELSE IF response.status = "healthy" THEN "healthy" ELSE "unhealthy"
    /\ UNCHANGED <<variant, files, error, isUploading, inFlight, uploadedFiles,
                   nextId, removed, returned, chatVars>>

NextHealth ==
    \/ \E response \in HealthResponses : checkBackendHealth(response)
    \/ \E text \in Texts : setInput(text)
    \/ handleKeyDown
    \/ sendClicked
    \/ answered
    \/ firstFilesUploaded

SpecHealth == InitChat /\ [][NextHealth]_vars

(* The controller called directly *)

\* handleSend() is called whatever the textarea and the button show; what the
\* call met and whether it appended a message or issued a request is kept in
\* `returned`.
handleSendCalled ==
    /\ RoomToAsk
    /\ IF chatVariant = "chat" THEN handleSend ELSE handleSend_alt
    /\ returned' = [inFlight |-> sends # {},
                    accepted |-> messages' # messages \/ requests' # requests]
    /\ UNCHANGED <<variant, files, error, isUploading, inFlight, uploadedFiles,
                   nextId, removed, backendStatus, chatVariant>>

NextChatController ==
    \/ \E text \in Texts : setInput(text)
    \/ handleSendCalled
    \/ answered
    \/ \E results \in ReportedResults : onFilesUploaded(results)

SpecChatController == InitChat /\ [][NextChatController]_vars

----------------------------------------------------------------------------
(* Vocabulary of the properties *)

\* A step in which `fileList` is dropped on, or selected in, the component.
Submits(fileList) ==
    \/ handleFileSelect(fileList)
    \/ handleDrop(fileList)
    \/ handleFileChange_alt(fileList)
    \/ handleDrop_alt(fileList)

\* The extension as the specification defines it: the lower-cased text after
\* the last ".", and "" for a name without ".".
SpecExtension(name) ==
    IF \A i \in 1..Len(name) : name[i] # "."
    THEN <<>>
    ELSE toLowerCase(SubSeq(name, SetMax({i \in 1..Len(name) : name[i] = "."}) + 1,
                            Len(name)))

\* .pdf .txt .html .md .docx .doc .csv
SpecExtensions ==
    { <<"p", "d", "f">>, <<"t", "x", "t">>, <<"h", "t", "m", "l">>, <<"m", "d">>,
      <<"d", "o", "c", "x">>, <<"d", "o", "c">>, <<"c", "s", "v">> }

SpecMaxBytes == 10 * 1024 * 1024

Acceptable(f) == SpecExtension(f.name) \in SpecExtensions /\ f.size <= SpecMaxBytes

\* The file lists that hold a file of a disallowed type or over the limit.
UnacceptableLists ==
    {fileList \in FileLists : \E i \in 1..Len(fileList) : ~Acceptable(fileList[i])}

Uploading(list) == {k \in 1..Len(list) : list[k].status = "uploading"}

Terminal(entry) == entry.status \in {"success", "error"}

\* The allowed types of the mounted component.
mountedTypes == IF variant = "uploader" THEN allowedTypes ELSE allowedTypes_alt

\* What the mounted component's own checks object to in a file.
WrongType(f) == ~includes(mountedTypes, extension(f.name))
TooLarge(f) == f.size > maxFileSize

\* The generic messages that carry the HTTP status code, in either wording.
GenericMessages(status) ==
    { "Upload failed (" \o ToString(status) \o ")", "HTTP " \o ToString(status) }

----------------------------------------------------------------------------
(* Properties *)

\* C1: a file whose own upload request has resolved is no longer in
\* Uploading status, whatever the state of its siblings' requests.
C1_ResolvedFileLeavesUploading ==
    \A call \in inFlight : \A i \in 1..Len(call.results) :
        call.results[i] # pendingResult =>
            \A k \in 1..Len(files) :
                files[k].id = call.ids[i] => files[k].status # "uploading"

\* C2: an entry holds only the result of the request issued for its own
\* file: a result is never written to an entry created for another file or
\* another batch.
C2_ResultInOwnEntry ==
    \A k \in 1..Len(files) : files[k].from # 0 => files[k].from = files[k].id

\* C3: a submission that holds a file of a disallowed type or over the size
\* limit issues no request (no call in flight is added, no entry created)
\* and leaves the tracked-file list and the in-progress flag as they were:
\* a step that changes any of these is not the submission of such a list.
C3_RejectedBatchChangesNothing ==
    [][\/ UNCHANGED <<files, isUploading, inFlight, nextId, uploadedFiles>>
       \/ \A fileList \in UnacceptableLists : ~Submits(fileList)]_vars

\* C3 witness: a submission was rejected (its error is shown) while an
\* earlier batch is tracked and in flight.
C3_Witness ==
    /\ error # null
    /\ inFlight # {}
    /\ Uploading(files) # {}

\* C4: the validation error names the lowest-index file that is of a wrong
\* type or too large, for the reason that applies to that file.
C4_ErrorNamesFirstOffendingFile ==
    [][\A fileList \in ValidateLists :
          LET offending == {i \in 1..Len(fileList) :
                               WrongType(fileList[i]) \/ TooLarge(fileList[i])}
          IN  (Submits(fileList) /\ offending # {}) =>
                  LET f == fileList[SetMin(offending)]
                  IN  /\ error' # null
                      /\ error'.file = f.name
                      /\ error'.kind = "is not supported" => WrongType(f)
                      /\ error'.kind = "exceeds 10MB limit" => TooLarge(f)]_vars

\* C4, for the part_002 component alone.
Uploader_ErrorNamesFirstOffendingFile ==
    [][variant = "uploader" => C4_ErrorNamesFirstOffendingFile!1]_vars

\* C5: a submission holding a file whose name has no "." fails validation.
C5_NameWithoutDotIsRejected ==
    [][\A fileList \in ValidateLists :
          (Submits(fileList)
             /\ \E i \in 1..Len(fileList) :
                    \A j \in 1..Len(fileList[i].name) : fileList[i].name[j] # ".")
              => error' # null]_vars

\* C6: a submission passes validation exactly when each of its files has an
\* extension in {pdf, txt, html, md, docx, doc, csv} and at most 10 MiB.
C6_AcceptsExactlyAcceptableBatches ==
    [][\A fileList \in ValidateLists :
          Submits(fileList) =>
              (error' = null <=> \A i \in 1..Len(fileList) : Acceptable(fileList[i]))]_vars

\* C7: an accepted batch of N files turns the list into the previous list
\* followed by N Uploading entries in the batch's order, with every request
\* of the batch still unanswered.
C7_AcceptedBatchIsAppended ==
    [][\A fileList \in FileLists :
          (Submits(fileList) /\ nextId' # nextId) =>
              /\ Len(files') = Len(files) + Len(fileList)
              /\ \A k \in 1..Len(files) : files'[k] = files[k]
              /\ \A j \in 1..Len(fileList) :
                     /\ files'[Len(files) + j].name = fileList[j].name
                     /\ files'[Len(files) + j].status = "uploading"
              /\ \A call \in inFlight' \ inFlight :
                     \A i \in 1..Len(call.results) : call.results[i] = pendingResult]_vars

\* C7, for the part_002 component alone.
Uploader_AcceptedBatchIsAppended ==
    [][variant = "uploader" => C7_AcceptedBatchIsAppended!1]_vars

\* C8: an entry is created in Uploading status; while it is tracked it keeps
\* its name and goes from Uploading only to Success or Error; once Success or
\* Error it stays exactly as it is until it is removed.
C8_TerminalIsFinal ==
    [][/\ \A k \in 1..Len(files) : \A k2 \in 1..Len(files') :
              files'[k2].id = files[k].id =>
                  IF Terminal(files[k])
                  THEN files'[k2] = files[k]
                  ELSE /\ files'[k2].name = files[k].name
                       /\ files'[k2].status \in {"uploading", "success", "error"}
       /\ \A k2 \in 1..Len(files') :
              files'[k2].id \notin ids(files) =>
                  files'[k2].status = "uploading" /\ files'[k2].from = 0]_vars

\* C8 witness: two entries of one name, the earlier one Success and the later
\* one Error, each holding its own result: the results of the later batch
\* were applied while the earlier entry of that name was already final.
C8_Witness ==
    \E k1, k2 \in 1..Len(files) :
        /\ k1 < k2
        /\ files[k1].name = files[k2].name
        /\ files[k1].status = "success" /\ files[k1].from = files[k1].id
        /\ files[k2].status = "error" /\ files[k2].from = files[k2].id

\* C9: the in-progress flag is true exactly when some tracked file is in
\* Uploading status.
C9_FlagIffSomeFileUploading ==
    isUploading <=> Uploading(files) # {}

\* C10: no entry holds the result of a request that was issued for an entry
\* the user has removed.
C10_NoResultOfRemovedEntry ==
    \A k \in 1..Len(files) : files[k].from \notin removed

\* C11: an upload request that does not end in a 2xx answer with a readable
\* body gives an Error result, never Success: the detail of a non-2xx answer
\* that has one, the generic message with the status code of a non-2xx
\* answer without a parsable detail, the network-failure message of a
\* request that got no answer.
C11_FailedRequestGivesItsErrorMessage ==
    returned # null =>
        LET response == returned.response
            result == returned.result
            failed == response.type = "network" \/ ~response.ok \/ ~response.json
            hasDetail == response.json /\ response.detail # ""
        IN  failed =>
              /\ result.status = "error"
              /\ response.type = "network" => result.error = "Failed to fetch"
              /\ (response.type = "response" /\ ~response.ok /\ hasDetail)
                     => result.error = response.detail
              /\ (response.type = "response" /\ ~response.ok /\ ~hasDetail)
                     => result.error \in GenericMessages(response.status)

\* C11, for the part_002 component alone.
Uploader_FailedRequestGivesItsErrorMessage ==
    variant = "uploader" => C11_FailedRequestGivesItsErrorMessage

\* C12: a tracked file in Success status carries the chunk count and the
\* document id of the answer to its own upload request (the request issued
\* for the entry, whose result Home has been handed).
C12_SuccessCarriesOwnResponse ==
    \A k \in 1..Len(files) :
        files[k].status = "success" =>
            \E j \in 1..Len(uploadedFiles) :
                /\ uploadedFiles[j].from = files[k].id
                /\ uploadedFiles[j].status = "success"
                /\ files[k].chunks = uploadedFiles[j].chunks
                /\ files[k].docId = uploadedFiles[j].docId

\* The requests of a call that are out and unanswered.
Pending(call) == {i \in 1..Len(call.results) : call.results[i] = pendingResult}

\* C13: every request of an accepted batch is issued before any is awaited:
\* the step in which the part_002 component accepts a batch of N files puts
\* N unanswered requests in flight at once, and no file of a call in flight
\* ever waits for the request of an earlier file to be answered.
C13_AllRequestsIssuedAtOnce ==
    [][/\ \A call \in inFlight' : \A i \in 1..Len(call.results) :
              call.results[i] # notStarted
       /\ (variant = "uploader" /\ nextId' # nextId) =>
              \E call \in inFlight' \ inFlight :
                  /\ Len(call.results) = nextId' - nextId
                  /\ Pending(call) = 1..Len(call.results)]_vars

\* C13 witness: two requests of one batch are in flight at once.
C13_Witness ==
    \E call \in inFlight : Len(call.results) = 2 /\ Pending(call) = {1, 2}

\* The entries (by id) whose upload request is out and unanswered.
Requested ==
    UNION {{call.ids[i] : i \in Pending(call)} : call \in inFlight}

\* C14: no upload is retried.  A step issues requests only for the entries
\* it creates, one for each file of the batch the part_002 component
\* accepts, so no entry ever gets a second request; and an entry in Error
\* status stays as it is while it is tracked (a new submission of the file
\* makes a new entry).
C14_NoAutomaticRetry ==
    [][/\ Requested' \ Requested \subseteq nextId..(nextId' - 1)
       /\ variant = "uploader" => nextId..(nextId' - 1) \subseteq Requested'
       /\ \A k \in 1..Len(files) : \A k2 \in 1..Len(files') :
              (files'[k2].id = files[k].id /\ files[k].status = "error")
                  => files'[k2] = files[k]]_vars

\* C14 witness: a file whose upload failed was submitted again: its first
\* entry is still in Error with its own result, the new entry is Uploading
\* with the one request of the new batch in flight.
C14_Witness ==
    \E k1, k2 \in 1..Len(files) :
        /\ k1 < k2
        /\ files[k1].name = files[k2].name
        /\ files[k1].status = "error" /\ files[k1].from = files[k1].id
        /\ files[k2].status = "uploading"
        /\ Requested = {files[k2].id}

\* C15: the User message of a question is in the log when the first request
\* of its turn is issued, and it stays: the log only grows at its end, every
\* message keeps its position and its text in every step (whatever the
\* outcome of the turn), and every request issued so far belongs to a User
\* message in the log that holds the query's text.
C15_UserMessageFirstAndKept ==
    [][/\ Len(messages') >= Len(messages)
       /\ \A i \in 1..Len(messages) : messages'[i] = messages[i]
       /\ \A r \in 1..Len(requests') :
              /\ requests'[r].at \in 1..Len(messages')
              /\ messages'[requests'[r].at] = userMessage(requests'[r].body.query)]_vars

\* C15 witness: a turn whose generation request failed has ended; its User
\* message is where it was appended, followed by the reply.
C15_Witness ==
    /\ sends = {}
    /\ \E r \in 1..Len(requests) :
           /\ requests[r].url = "/chat"
           /\ messages[requests[r].at] = userMessage(requests[r].body.query)
           /\ messages[requests[r].at + 1] = botMessage(serviceUnavailable)

\* C16: a question accepted while no successful upload is recorded ends its
\* turn in the same step with one Assistant message, the upload-documents-
\* first text, and no request is issued for it.
C16_NoDocumentsNoRequest ==
    [][(~hasDocuments /\ Len(messages') > Len(messages)) =>
           /\ messages' = messages \o
                  <<userMessage(input), botMessage(uploadFirstText)>>
           /\ requests' = requests
           /\ sends' = sends
           /\ sends = {}]_vars

\* C16 witness: the log of such a turn, no request ever issued.
C16_Witness ==
    /\ ~hasDocuments
    /\ Len(messages) = 2
    /\ messages[1].role = "user"
    /\ messages[2] = botMessage(uploadFirstText)
    /\ requests = <<>>

\* The no-relevant-information text of the mounted component.
NoInformationText ==
    IF chatVariant = "chat" THEN noInformationText ELSE noInformationText_alt

\* The answers of /query that hold a list of zero passages.
EmptyAnswers ==
    {response \in QueryResponses :
        /\ response.type = "response" /\ response.ok /\ response.json
        /\ response.hasResults /\ Len(response.results) = 0}

\* C17: when /query answers with zero passages the turn ends in that step
\* with one Assistant message, the no-relevant-information text, that
\* carries no source (an empty list in ChatBox.tsx, no list at all in
\* part_003, which the rendering treats alike), and no /chat request is
\* issued in the turn.
C17_EmptyResultEndsTheTurn ==
    [][\A send \in sends : \A response \in EmptyAnswers :
          queryAnswered(send, response) =>
              /\ Len(messages') = Len(messages) + 1
              /\ \A i \in 1..Len(messages) : messages'[i] = messages[i]
              /\ messages'[Len(messages')].role = "bot"
              /\ messages'[Len(messages')].content = [text |-> NoInformationText]
              /\ messages'[Len(messages')].sources = <<>>
              /\ sends' = sends \ {send}
              /\ \A r \in 1..Len(requests') :
                     requests'[r].at = send.at => requests'[r].url = "/query"]_vars

\* C17 witness: a turn that issued its /query request has ended with the
\* no-relevant-information text and no source.
C17_Witness ==
    /\ sends = {}
    /\ Len(requests) = 1
    /\ Len(messages) = 2
    /\ messages[2].role = "bot"
    /\ messages[2].content = [text |-> NoInformationText]
    /\ messages[2].sources = <<>>

\* C18: when /query returned n passages and the generation succeeds, the
\* sources of the Assistant message are the n passages, in their order.
C18_SourcesAreAllPassages ==
    [][\A send \in sends : \A response \in ChatResponses :
          (/\ response.type = "response" /\ response.ok /\ response.json
           /\ response.hasResponse
           /\ chatAnswered(send, response)) =>
              /\ messages'[Len(messages')].hasSources
              /\ messages'[Len(messages')].sources = send.results]_vars

\* The user-facing texts of the catch blocks of the two components.
ClassifierMessages ==
    {somethingWentWrong, cantConnect, failedToSearch, serviceUnavailable,
     errorText_alt}

\* The answers that are failures: no answer, a non-2xx answer, a 2xx answer
\* whose body does not parse or lacks the field (`results`, `response`).
FailedQueryResponses ==
    {response \in QueryResponses :
        response.type = "network" \/ ~response.ok \/ ~response.json
            \/ ~response.hasResults}

FailedChatResponses ==
    {response \in ChatResponses :
        response.type = "network" \/ ~response.ok \/ ~response.json
            \/ ~response.hasResponse}

\* The step ends the turn of `send` with one Assistant message whose text is
\* one of the classifier's.
EndsClassified(send) ==
    /\ Len(messages') = Len(messages) + 1
    /\ \A i \in 1..Len(messages) : messages'[i] = messages[i]
    /\ \E text \in ClassifierMessages :
           messages'[Len(messages')] = botMessage(text)
    /\ sends' = sends \ {send}

\* C19: a failed retrieval or generation (no answer, a non-2xx answer, a 2xx
\* answer with a malformed body) ends the turn with exactly one Assistant
\* message whose text is one of the classifier's user-facing texts.
C19_FailureEndsClassified ==
    [][/\ \A send \in sends : \A response \in FailedQueryResponses :
              queryAnswered(send, response) => EndsClassified(send)
       /\ \A send \in sends : \A response \in FailedChatResponses :
              chatAnswered(send, response) => EndsClassified(send)]_vars

\* C20: the log alternates User, Assistant, User, Assistant, ..., starting
\* with a User message; only its last message can be a User message without
\* a reply.
C20_LogAlternates ==
    \A i \in 1..Len(messages) :
        messages[i].role = IF i % 2 = 1 THEN "user" ELSE "bot"

\* C20 witness: after a complete turn a second question is in flight, its
\* User message the last of the log.
C20_Witness ==
    /\ Len(messages) = 3
    /\ sends # {}
    /\ messages[3].role = "user"

LastIsUser == Len(messages) > 0 /\ messages[Len(messages)].role = "user"
LastIsBot == Len(messages) > 0 /\ messages[Len(messages)].role = "bot"

\* C21: when every request is eventually answered, the log is again and
\* again without an outstanding reply (every accepted question gets its
\* Assistant message); and whenever no reply is outstanding, loading is
\* false, no turn is in flight and, once a question has been asked, the
\* textarea is enabled, so that a new question is accepted.
C21_EveryQuestionIsAnswered ==
    /\ []<>(~LastIsUser)
    /\ [](~LastIsUser =>
             /\ ~loading
             /\ sends = {}
             /\ Len(messages) > 0 => (LastIsBot /\ ~textareaDisabled))

\* C21 witness: a retrieval failed, its turn ended with the reply, and the
\* next question has been accepted.
C21_Witness ==
    /\ Len(messages) = 3
    /\ messages[2] = botMessage(failedToSearch)
    /\ messages[3].role = "user"
    /\ loading

C23_BusyWhileUnanswered ==
    /\ LastIsUser => loading
    /\ ~loading => (messages = <<>> \/ LastIsBot)

\* C23 witness: a turn answered with sources, and loading false again.
C23_Witness ==
    /\ Len(messages) = 2
    /\ messages[2].hasSources
    /\ ~loading
    /\ sends = {}

isPrefix(a, b) == Len(a) <= Len(b) /\ SubSeq(b, 1, Len(a)) = a

lastText == messages'[Len(messages')].content

\* C25: in the part_003 component a request that got no answer (the fetch
\* was rejected) is reported by the cannot-connect text whatever the message
\* of the rejection, and a request that got an HTTP answer is never reported
\* by that text.
C25_TransportFailureIsUnreachable ==
    [][chatVariant = "chat" =>
         \A send \in sends :
            /\ \A response \in QueryResponses :
                  queryAnswered(send, response) =>
                     IF response.type = "network"
                     THEN lastText = [text |-> cantConnect]
                     ELSE lastText # [text |-> cantConnect]
            /\ \A response \in ChatResponses :
                  chatAnswered(send, response) =>
                     IF response.type = "network"
                     THEN lastText = [text |-> cantConnect]
                     ELSE lastText # [text |-> cantConnect]]_vars

\* C26: in the part_003 component the text that reports a failure depends on
\* the failure only: a non-2xx answer is reported by the same text whether
\* POST /query or POST /chat got it, and so is a rejected fetch.
C26_ClassificationIgnoresTheStage ==
    [][chatVariant = "chat" =>
         \A send \in sends :
            /\ \A response \in FailedQueryResponses :
                  queryAnswered(send, response) =>
                     IF response.type = "network"
                     THEN lastText = [text |-> errorMessage(Error(response.message))]
                     ELSE ~response.ok =>
                            lastText = [text |-> errorMessage(chatFailed(response.status))]
            /\ \A response \in FailedChatResponses :
                  chatAnswered(send, response) =>
                     IF response.type = "network"
                     THEN lastText = [text |-> errorMessage(Error(response.message))]
                     ELSE ~response.ok =>
                            lastText = [text |-> errorMessage(queryFailed(response.status))]]_vars

\* The source attribution part_003 puts before the content of a passage.
attribution(index, result) ==
    "Source " \o ToString(index) \o " (" \o result.filename \o "):\n"

startsWith(string, prefix) ==
    Len(prefix) <= Len(string) /\ SubSeq(string, 1, Len(prefix)) = prefix

\* C27: the context built from a retrieval result is no longer than the
\* budget of 50 characters, a single passage of 100 characters included, and
\* a context built from at least one passage starts with the attribution of
\* the first.
C27_ContextWithinBudget ==
    returned # null =>
        LET maxChars == 50
        IN  /\ Len(returned.context) <= maxChars
            /\ returned.results # <<>> =>
                   startsWith(returned.context,
                              attribution(1, returned.results[1]))

\* The blocks the context is made of: each of the first k passages whole,
\* after its attribution.
blocks(results, k) ==
    [i \in 1..k |-> attribution(i, results[i]) \o results[i].content]

\* C28: the context is made of the first k = min(3, n) of the n passages, in
\* their order, each whole and after the name of its source document, the
\* blocks separated by a blank line, `---` and a blank line.
C28_ContextIsTopPassages ==
    returned # null =>
        LET n == Len(returned.results)
            k == IF n < 3 THEN n ELSE 3
        IN  returned.context = join(blocks(returned.results, k), "\n\n---\n\n")

\* C28, for the part_003 component alone.
Chat_ContextIsTopPassages ==
    chatVariant = "chat" => C28_ContextIsTopPassages

\* The entry numbered `id` is tracked in Uploading status.
IsUploading(id) ==
    \E k \in 1..Len(files) : files[k].id = id /\ files[k].status = "uploading"

\* C29: when every upload request is eventually answered, every file in
\* Uploading status eventually is in Success or Error status or is removed,
\* and isUploading, once true, eventually is false again.
C29_UploadsTerminate ==
    /\ \A id \in 1..MaxUploads : IsUploading(id) ~> ~IsUploading(id)
    /\ isUploading ~> ~isUploading

\* C29, for the part_002 component alone.
Uploader_UploadsTerminate ==
    /\ \A id \in 1..MaxUploads :
          (variant = "uploader" /\ IsUploading(id)) ~> ~IsUploading(id)
    /\ (variant = "uploader" /\ isUploading) ~> ~isUploading

\* C30: every request carries the text of the User message of its turn,
\* every POST /query carries top_k = 5, every POST /chat comes after the
\* POST /query of the same turn, and the step that issues a POST /chat is the
\* step in which the POST /query of that turn is answered with at least one
\* passage.
C30_ChatFollowsRetrieval ==
    /\ [](\A j \in 1..Len(requests) :
            LET request == requests[j]
            IN  /\ request.at \in 1..Len(messages)
                /\ messages[request.at].role = "user"
                /\ request.body.query = messages[request.at].content.typed
                /\ request.url = "/query" => request.body.top_k = 5
                /\ request.url = "/chat" =>
                       \E i \in 1..(j - 1) :
                           /\ requests[i].url = "/query"
                           /\ requests[i].at = request.at)
    /\ [][(/\ Len(requests') > Len(requests)
           /\ requests'[Len(requests')].url = "/chat") =>
              \E send \in sends : \E response \in QueryResponses :
                  /\ send.pc = "query"
                  /\ send.at = requests'[Len(requests')].at
                  /\ response.type = "response"
                  /\ response.ok /\ response.json /\ response.hasResults
                  /\ Len(response.results) >= 1
                  /\ queryAnswered(send, response)]_vars

\* C30 witness: the POST /chat of a turn is out, after its POST /query was
\* answered with passages.
C30_Witness ==
    /\ Len(requests) = 2
    /\ requests[1].url = "/query"
    /\ requests[2].url = "/chat"
    /\ requests[2].at = requests[1].at
    /\ \E send \in sends : send.pc = "chat" /\ Len(send.results) >= 1

\* Some upload request has been answered with success: its result is with
\* Home, or still with the handleFileUpload call that waits for the other
\* requests of its batch.
SomeUploadSucceeded ==
    \/ \E j \in 1..Len(uploadedFiles) : uploadedFiles[j].status = "success"
    \/ \E call \in inFlight : \E i \in 1..Len(call.results) :
           call.results[i].status = "success"

\* C31: a question submitted after some upload request was answered with
\* success is sent to POST /query and gets no reply in the same step (no
\* upload-first guidance), other requests of the batch being still out or
\* not.
C31_QuestionAfterSuccessIsRetrieved ==
    [][(/\ SomeUploadSucceeded
        /\ Len(messages') > Len(messages)
        /\ messages'[Len(messages) + 1].role = "user") =>
           /\ Len(messages') = Len(messages) + 1
           /\ Len(requests') = Len(requests) + 1
           /\ requests'[Len(requests')].url = "/query"]_vars

\* C32: "Clear All" of the part_002 component leaves the list empty whatever
\* it held, and an empty list stays empty in every step that accepts no
\* batch: the answers to the requests that were out add and change nothing.
C32_ClearAllStaysCleared ==
    [][/\ clearAll => files' = <<>>
       /\ (files = <<>> /\ nextId' = nextId) => files' = <<>>]_vars

\* C32 witness: the list was cleared while a batch of two was in flight, and
\* one of its requests has been answered since the batch started.
C32_Witness ==
    /\ files = <<>>
    /\ \E call \in inFlight :
           /\ \A i \in 1..Len(call.ids) : call.ids[i] \in removed
           /\ \E i \in 1..Len(call.results) : call.results[i] = pendingResult
           /\ \E i \in 1..Len(call.results) : call.results[i] # pendingResult

\* Everything but the backend status.
pipelineVars ==
    <<variant, files, error, isUploading, inFlight, uploadedFiles, nextId, removed,
      returned, chatVars>>

\* Enter, or the button, has a question accepted; a request is issued for it.
EnterAccepted == handleKeyDown /\ messages' # messages
EnterQueried == handleKeyDown /\ requests' # requests
ClickAccepted == sendClicked /\ messages' # messages
ClickQueried == sendClicked /\ requests' # requests

\* C33: the backend status is not read by the pipeline.  The step that sets
\* it changes nothing else, and enables or disables nothing: the same texts
\* can be typed, Enter and the button have a question accepted and sent to
\* retrieval, a request is answered and a report of the uploader is taken
\* before the step exactly when after it; and no step of the pipeline
\* changes the backend status.
C33_HealthIsNotConsumed ==
    [][/\ backendStatus' # backendStatus =>
             /\ UNCHANGED pipelineVars
             /\ \A text \in Texts :
                   (ENABLED setInput(text))' <=> ENABLED setInput(text)
             /\ (ENABLED EnterAccepted)' <=> ENABLED EnterAccepted
             /\ (ENABLED EnterQueried)' <=> ENABLED EnterQueried
             /\ (ENABLED ClickAccepted)' <=> ENABLED ClickAccepted
             /\ (ENABLED ClickQueried)' <=> ENABLED ClickQueried
             /\ (ENABLED answered)' <=> ENABLED answered
             /\ (ENABLED firstFilesUploaded)' <=> ENABLED firstFilesUploaded
       /\ pipelineVars' # pipelineVars => backendStatus' = backendStatus]_vars

\* C33 witness: with the backend reported unhealthy a question was retrieved
\* and answered with sources.
C33_Witness ==
    /\ backendStatus = "unhealthy"
    /\ Len(messages) = 2
    /\ messages[2].hasSources
    /\ Len(requests) >= 1

\* C34: hasDocuments, once true, stays true: no step makes it false, and the
\* list of results Home holds only grows, whatever is removed from the list
\* of the uploader.
C34_HasDocumentsIsMonotonic ==
    [][/\ hasDocuments => hasDocuments'
       /\ isPrefix(uploadedFiles, uploadedFiles')]_vars

\* C34 witness: the uploader's list is empty again, the entry of the
\* successful upload removed, and hasDocuments is true.
C34_Witness ==
    /\ hasDocuments
    /\ files = <<>>
    /\ inFlight = {}
    /\ \A j \in 1..Len(uploadedFiles) : uploadedFiles[j].from \in removed

\* The positions of uploadedFiles that hold the result of the request issued
\* for the entry numbered `id`.
ReportsOf(id) == {j \in 1..Len(uploadedFiles) : uploadedFiles[j].from = id}

\* C35: in the part_002 component the results of an accepted batch reach Home
\* exactly once, when the last of its requests is answered: the step that
\* adds to Home's list ends one call, and appends one result per file of
\* its batch, in the order of the batch, each Success or Error; the files
\* of a call still in flight have no result with Home, every other accepted
\* file has exactly one.  Nothing else adds to the list, a rejected batch
\* included.
C35_OneReportPerBatch ==
    /\ [](variant = "uploader" =>
            \A id \in 1..(nextId - 1) :
                IF \E call \in inFlight : \E i \in 1..Len(call.ids) : call.ids[i] = id
                THEN ReportsOf(id) = {}
                ELSE Cardinality(ReportsOf(id)) = 1)
    /\ [][(variant = "uploader" /\ uploadedFiles' # uploadedFiles) =>
              \E call \in inFlight :
                  /\ call \notin inFlight'
                  /\ Cardinality(inFlight') = Cardinality(inFlight) - 1
                  /\ Cardinality(Pending(call)) = 1
                  /\ Len(uploadedFiles') = Len(uploadedFiles) + Len(call.ids)
                  /\ SubSeq(uploadedFiles', 1, Len(uploadedFiles)) = uploadedFiles
                  /\ \A i \in 1..Len(call.ids) :
                        LET result == uploadedFiles'[Len(uploadedFiles) + i]
                        IN  /\ result.from = call.ids[i]
                            /\ result.name = call.names[i]
                            /\ result.status \in {"success", "error"}]_vars

\* C35 witness: a batch of two, one request answered with success and one
\* with an error, has been reported.
C35_Witness ==
    /\ variant = "uploader"
    /\ inFlight = {}
    /\ Len(uploadedFiles) = 2
    /\ uploadedFiles[1].from = 1 /\ uploadedFiles[1].status = "success"
    /\ uploadedFiles[2].from = 2 /\ uploadedFiles[2].status = "error"
    /\ Len(files) = 2

\* The list without its entry at `index`.
without(list, index) ==
    [i \in 1..(Len(list) - 1) |-> IF i < index THEN list[i] ELSE list[i + 1]]

\* The step removes exactly one entry: the others stay as they are and in
\* their order, and nothing else of the uploader changes.
RemovalIsExact ==
    removeClicked =>
        /\ \E index \in 1..Len(files) : files' = without(files, index)
        /\ UNCHANGED <<error, isUploading, inFlight, uploadedFiles>>

\* The step ends `call` and writes its results, each into the entry created
\* for its file and into no other entry.
DeliversOwnResults(call) ==
    \A k \in 1..Len(files') :
        LET entry == files'[k]
            written == \E j \in 1..Len(files) :
                           files[j].id = entry.id /\ files[j].from # entry.from
            ofCall == \E i \in 1..Len(call.ids) : call.ids[i] = entry.id
        IN  /\ written => (ofCall /\ entry.from = entry.id)
            /\ ofCall => entry.from = entry.id

\* C36: a removal deletes exactly the entry removed; and once an entry has
\* been removed, a batch that resolves still writes each of its results
\* into the entry of its own file.
C36_RemovalIsExactAndHarmless ==
    [][/\ RemovalIsExact
       /\ removed # {} =>
             \A call \in inFlight : call \notin inFlight' => DeliversOwnResults(call)]_vars

\* C36, its first half alone: a removal deletes exactly the entry removed.
Uploader_RemovalIsExact == [][RemovalIsExact]_vars

\* The text is empty or made of white space only.
OnlyWhitespace(text) == \A i \in 1..Len(text) : text[i] = " "

\* C37: a handleSend call made with an empty or white-space-only text in the
\* textarea appends no message, issues no request and leaves the log, the
\* requests, the busy flag and the text as they were.
C37_BlankSubmissionIsIgnored ==
    [][(OnlyWhitespace(input) /\ handleSendCalled) =>
           UNCHANGED <<messages, requests, loading, sends, input>>]_vars

\* C37 witness: handleSend was called outside a turn and accepted nothing,
\* a blank being in the textarea and the log still empty.
C37_Witness ==
    /\ returned # null
    /\ ~returned.inFlight
    /\ ~returned.accepted
    /\ input = <<" ">>
    /\ messages = <<>>
    /\ ~loading

====
